---- MODULE Spec2Model ----
(***************************************************************************)
(* A model of pi_control_hub's DriverManager (driver_manager.py) and of    *)
(* the Shelve / PairedDevice persistence layer (database.py).              *)
(*                                                                         *)
(* State: the drivers there are (catalog), the plugin host's installed     *)
(* drivers and the devices each driver                                     *)
(* exposes (the environment the manager queries), the shelve file (store), *)
(* the manager's TTLCache (cache) and the outcome of the last              *)
(* DriverManager call (last). pairings is history: the (driver, device)    *)
(* pairs that finalize_pairing reported paired since the last successful   *)
(* unpair_device of their pairing ID.                                      *)
(*                                                                         *)
(* Spec: every DriverManager coroutine is one action, a call that takes no *)
(* time. SpecSessions adds the pairing sessions a driver keeps between     *)
(* start_pairing and finalize_pairing (requests). SpecTasks follows the    *)
(* calls that resolve a device instance as coroutines (tasks): a coroutine *)
(* runs without interleaving up to the driver call it awaits, other        *)
(* coroutines run while it is suspended there, and cache entries expire    *)
(* as time passes, also between two statements. SpecKeys runs the cache    *)
(* calls with driver and device identifiers that are free strings.         *)
(* SpecStore follows paired_devices through its store operations           *)
(* (listCall), with unpair_device and finalize_pairing between them.       *)
(***************************************************************************)
EXTENDS Integers, Sequences, FiniteSets, TLC

VARIABLES catalog, installed, exposed, store, cache, last, envChanges, pairings,
          requests, tasks, listCall

vars == <<catalog, installed, exposed, store, cache, last, envChanges, pairings,
          requests, tasks, listCall>>

(***************************************************************************)
(* Bounds and identifier universes.                                        *)
(***************************************************************************)

\* How many times the environment (plugin host, drivers) changes in a run.
MaxEnvChanges == 2

\* How many coroutines that resolve a device instance run at a time.
NumTasks == 2

\* The coroutines.
Tasks == 1..NumTasks

\* Python's None as an identifier value.
None == "<None>"

\* The drivers there are to install and the device identifiers each can
\* expose: one driver whose devices include an empty and a missing
\* identifier, or two drivers whose identifiers overlap.
Catalogs ==
    { "tv" :> {"a.b", "", None},
      "tv" :> {"a.b"} @@ "tv.a" :> {"b"} }

\* Driver identifiers the plugin host can have installed.
DriverIds == DOMAIN catalog

\* The device identifiers a driver can expose.
DevicesOf(d) == catalog[d]

\* The device identifiers a caller asks driver d for: its devices and one
\* that it never exposes.
AskedDevices(d) == DevicesOf(d) \cup {"nodevice"}

\* Command identifiers of a device instance.
CommandIds == {1}

\* The place of an argument or a value a call does not have.
NoArg == "-"

\* The elements of a sequence.
Range(seq) == {seq[i] : i \in DOMAIN seq}

(***************************************************************************)
(* database.py                                                             *)
(***************************************************************************)

\* A pairing_id that does not look for None: the f-string alone.
pairing_id_unchecked(driver_id, device_id) ==
    [ok |-> TRUE, id |-> driver_id \o "." \o device_id]

\* PairedDevice.pairing_id: the f-string, or InvalidKeyException for None.
pairing_id(driver_id, device_id) ==
    IF driver_id = None \/ device_id = None
    THEN [ok |-> FALSE, id |-> "InvalidKeyException"]
    ELSE [ok |-> TRUE, id |-> driver_id \o "." \o device_id]

\* PairedDevice.key_from_pairing_id: the key dict.
key_from_pairing_id(pid) == [class |-> "PairedDevice", pairing_id |-> pid]

\* json.dumps of a key dict, as Shelve.load/save/delete apply it.
json_dumps(key) ==
    "{\"class\": \"" \o key.class \o "\", \"pairing_id\": \"" \o key.pairing_id \o "\"}"

\* PairedDevice.__init__
PairedDevice(driver_id, device_id, device_name) ==
    [driver_id |-> driver_id, device_id |-> device_id, device_name |-> device_name]

\* Shelve.load: the entity, or KeyError.
Shelve_load(db, key) ==
    LET key_str == json_dumps(key)
    IN  IF key_str \in DOMAIN db
        THEN [ok |-> TRUE, entity |-> db[key_str]]
        ELSE [ok |-> FALSE, entity |-> "KeyError"]

\* A Shelve.save that appends: an entity whose key is taken goes under one
\* more key instead of replacing what is there.
Shelve_save_appending(db, key, entity) ==
    IF json_dumps(key) \in DOMAIN db
    THEN [k \in DOMAIN db \cup {json_dumps(key) \o "+"} |->
             IF k \in DOMAIN db THEN db[k] ELSE entity]
    ELSE [k \in DOMAIN db \cup {json_dumps(key)} |->
             IF k \in DOMAIN db THEN db[k] ELSE entity]

\* Shelve.save: db[key_str] = entity.
Shelve_save(db, key, entity) ==
    LET key_str == json_dumps(key)
    IN  [k \in DOMAIN db \cup {key_str} |-> IF k = key_str THEN entity ELSE db[k]]

\* A Shelve.delete that clears the shelf.
Shelve_delete_all(db, key) == [k \in {} |-> db[k]]

\* Shelve.delete: del db[key_str] (the caller has seen that the key exists).
Shelve_delete(db, key) ==
    LET key_str == json_dumps(key)
    IN  [k \in DOMAIN db \ {key_str} |-> db[k]]

\* Shelve.keys
Shelve_keys(db) == DOMAIN db

(***************************************************************************)
(* The drivers (pi_control_hub_driver_api plugins), as the manager sees    *)
(* them.                                                                   *)
(***************************************************************************)

\* A DeviceInfo a driver reports: device_id and name.
DeviceInfo(device_id) == [device_id |-> device_id, name |-> "Device " \o device_id]

\* descriptor.get_devices(): the devices the driver exposes now.
get_devices(d) == {DeviceInfo(x) : x \in exposed[d]}

\* driver.start_pairing(device_info, remote_name): the request identifier
\* of the session the driver opens, and whether the device shows a PIN.
driver_start_pairing(d, device_info) ==
    <<"req-" \o d \o "-" \o device_info.device_id, TRUE>>

\* What driver.finalize_pairing(pairing_request, credentials, ...) can do:
\* report the pairing done, report it failed, or raise from its protocol
\* layer. Which one is the driver's business.
DriverAnswers == {"true", "false", "DeviceDriverException"}

\* driver.create_device_instance(device_id): a live handle.
create_device_instance(d, device_id) ==
    [kind |-> "instance", driver_id |-> d, device_id |-> device_id]

\* No device instance: what a coroutine holds before
\* driver.create_device_instance has returned to it.
NoInstance == [kind |-> "none", driver_id |-> NoArg, device_id |-> NoArg]

(***************************************************************************)
(* driver_manager.py: the cache and the registry.                          *)
(***************************************************************************)

\* The cache key of a device listing.
devices_key(driver_id) == "devices(" \o driver_id \o ")"

\* self._cache[key] = value
cache_set(c, key, value) ==
    [k \in DOMAIN c \cup {key} |-> IF k = key THEN value ELSE c[k]]

\* installed_drivers()
read_drivers == installed

\* A retrieve_driver that remembers: a driver whose device listing is in
\* the cache is taken to be installed.
retrieve_driver_remembering(driver_id) ==
    IF devices_key(driver_id) \in DOMAIN cache
           \/ \E descriptor \in read_drivers : descriptor = driver_id
    THEN [res |-> "ok", calls |-> <<"installed_drivers">>]
    ELSE [res |-> "DriverNotFound", calls |-> <<"installed_drivers">>]

\* DriverManager.retrieve_driver
retrieve_driver(driver_id) ==
    IF \E descriptor \in read_drivers : descriptor = driver_id
    THEN [res |-> "ok", calls |-> <<"installed_drivers">>]
    ELSE [res |-> "DriverNotFound", calls |-> <<"installed_drivers">>]

\* A read_devices that asks the driver's plugin for its devices whether or
\* not retrieve_driver found the driver.
read_devices_miss_unchecked(c, cache_key, drv, devices) ==
    [res |-> "ok", devices |-> devices, cache |-> cache_set(c, cache_key, devices),
     calls |-> drv.calls \o <<"get_devices">>]

\* DriverManager.read_devices after the cache lookup missed: drv is what
\* retrieve_driver gave, devices what descriptor.get_devices() gives.
read_devices_miss(c, cache_key, drv, devices) ==
    IF drv.res # "ok"
    THEN [res |-> drv.res, devices |-> {}, cache |-> c, calls |-> drv.calls]
    ELSE [res |-> "ok", devices |-> devices, cache |-> cache_set(c, cache_key, devices),
          calls |-> drv.calls \o <<"get_devices">>]

\* DriverManager.read_devices, on cache c: result, devices, new cache and
\* the driver capabilities called.
read_devices(c, driver_id) ==
    IF devices_key(driver_id) \in DOMAIN c
    THEN [res |-> "ok", devices |-> c[devices_key(driver_id)], cache |-> c,
          calls |-> <<>>]
    ELSE read_devices_miss(c, devices_key(driver_id), retrieve_driver(driver_id),
                           get_devices(driver_id))

\* DriverManager.retrieve_driver_and_device once read_devices has answered
\* rd: the filter on device_id and the first match.
filter_devices(rd, devices, calls) ==
    IF rd.res # "ok"
    THEN [res |-> rd.res, device |-> None, cache |-> rd.cache, calls |-> calls]
    ELSE IF devices = {}
    THEN [res |-> "DeviceNotFound", device |-> None, cache |-> rd.cache, calls |-> calls]
    ELSE [res |-> "ok", device |-> CHOOSE d \in devices : TRUE, cache |-> rd.cache,
          calls |-> calls]

\* A retrieve_driver_and_device that looks for the device first and for the
\* driver afterwards.
resolve_device_listing_first(c, drv, rd, device_id) ==
    IF rd.res = "ok" /\ ~\E d \in rd.devices : d.device_id = device_id
    THEN [res |-> "DeviceNotFound", device |-> None, cache |-> rd.cache,
          calls |-> rd.calls]
    ELSE IF drv.res # "ok"
    THEN [res |-> drv.res, device |-> None, cache |-> c, calls |-> drv.calls]
    ELSE filter_devices(rd, {d \in rd.devices : d.device_id = device_id},
                        drv.calls \o rd.calls)

\* A retrieve_driver_and_device that goes by the device listing alone and
\* takes no notice of what retrieve_driver answered.
resolve_device_unchecked(c, drv, rd, device_id) ==
    filter_devices(rd, {d \in rd.devices : d.device_id = device_id}, rd.calls)

\* DriverManager.retrieve_driver_and_device once retrieve_driver has
\* answered drv and read_devices rd.
resolve_device(c, drv, rd, device_id) ==
    IF drv.res # "ok"
    THEN [res |-> drv.res, device |-> None, cache |-> c, calls |-> drv.calls]
    ELSE filter_devices(rd, {d \in rd.devices : d.device_id = device_id},
                        drv.calls \o rd.calls)

\* DriverManager.retrieve_driver_and_device
retrieve_driver_and_device(c, driver_id, device_id) ==
    resolve_device(c, retrieve_driver(driver_id), read_devices(c, driver_id), device_id)

(***************************************************************************)
(* driver_manager.py: pairing, the paired devices and the device instance. *)
(* Each operator computes a call's outcome from the cache c and the shelf  *)
(* db: res (the return kind or the exception raised), val (the value       *)
(* returned), the new cache and shelf, and the driver capabilities called. *)
(***************************************************************************)

\* A call that ends where retrieve_driver_and_device raised.
Raised(r, db) ==
    [res |-> r.res, val |-> NoArg, store |-> db, cache |-> r.cache, calls |-> r.calls]

\* DriverManager.start_pairing once the device is resolved (r).
start_pairing_resolved(r, driver_id) ==
    IF r.res # "ok"
    THEN Raised(r, NoArg)
    ELSE [res |-> "ok", val |-> driver_start_pairing(driver_id, r.device),
          store |-> NoArg, cache |-> r.cache, calls |-> r.calls \o <<"start_pairing">>]

\* DriverManager.start_pairing
start_pairing(c, driver_id, device_id) ==
    start_pairing_resolved(retrieve_driver_and_device(c, driver_id, device_id), driver_id)

\* A finalize_pairing without the "if paired:": it saves the device
\* whatever the driver reported.
save_whatever_paired(r, db, paired, paired_device, pid) ==
    IF ~pid.ok
    THEN [res |-> "PairingException", val |-> NoArg, store |-> db, cache |-> r.cache,
          calls |-> r.calls \o <<"finalize_pairing">>]
    ELSE [res |-> IF paired THEN "true" ELSE "false", val |-> paired,
          store |-> Shelve_save(db, key_from_pairing_id(pid.id), paired_device),
          cache |-> r.cache, calls |-> r.calls \o <<"finalize_pairing">>]

\* DriverManager.finalize_pairing from "if paired:" on; pid is
\* paired_device.pairing_id, which paired_device.key evaluates.
save_if_paired(r, db, paired, paired_device, pid) ==
    IF paired /\ ~pid.ok
    THEN [res |-> "PairingException", val |-> NoArg, store |-> db, cache |-> r.cache,
          calls |-> r.calls \o <<"finalize_pairing">>]
    ELSE [res |-> IF paired THEN "true" ELSE "false", val |-> paired,
          store |-> IF paired
                    THEN Shelve_save(db, key_from_pairing_id(pid.id), paired_device)
                    ELSE db,
          cache |-> r.cache, calls |-> r.calls \o <<"finalize_pairing">>]

\* A finalize_pairing that saves the device first and asks the driver
\* afterwards.
finalize_pairing_save_first(r, db, driver_id, device_id, answer) ==
    IF r.res # "ok"
    THEN Raised(r, db)
    ELSE IF ~pairing_id(driver_id, device_id).ok
    THEN [res |-> "PairingException", val |-> NoArg, store |-> db, cache |-> r.cache,
          calls |-> r.calls]
    ELSE [res |-> IF answer = "DeviceDriverException" THEN "PairingException" ELSE answer,
          val |-> IF answer = "DeviceDriverException" THEN NoArg ELSE answer = "true",
          store |-> Shelve_save(db, key_from_pairing_id(pairing_id(driver_id, device_id).id),
                                PairedDevice(driver_id, device_id, r.device.name)),
          cache |-> r.cache, calls |-> r.calls \o <<"finalize_pairing">>]

\* DriverManager.finalize_pairing once the device is resolved (r); answer is
\* what driver.finalize_pairing does when it is reached.
finalize_pairing_resolved(r, db, driver_id, device_id, answer) ==
    IF r.res # "ok"
    THEN Raised(r, db)
    ELSE IF answer = "DeviceDriverException"
    THEN [res |-> "PairingException", val |-> NoArg, store |-> db, cache |-> r.cache,
          calls |-> r.calls \o <<"finalize_pairing">>]
    ELSE save_if_paired(r, db, answer = "true",
                        PairedDevice(driver_id, device_id, r.device.name),
                        pairing_id(driver_id, device_id))

\* DriverManager.finalize_pairing
finalize_pairing(c, db, driver_id, device_id, answer) ==
    finalize_pairing_resolved(retrieve_driver_and_device(c, driver_id, device_id),
                              db, driver_id, device_id, answer)

\* DriverManager.get_paired_device, given what Shelve.load did.
paired_device_or_not_found(l) ==
    IF l.ok THEN [res |-> "ok", val |-> l.entity]
    ELSE [res |-> "DeviceNotFound", val |-> NoArg]

\* DriverManager.get_paired_device
get_paired_device(db, pid) ==
    paired_device_or_not_found(Shelve_load(db, key_from_pairing_id(pid)))

\* DriverManager.unpair_device
unpair_device(db, pid) ==
    IF Shelve_load(db, key_from_pairing_id(pid)).ok
    THEN [res |-> "ok", store |-> Shelve_delete(db, key_from_pairing_id(pid))]
    ELSE [res |-> "DeviceNotFound", store |-> db]

\* DriverManager.device_instance_for_pairing_id once the device is
\* resolved (r): create the instance and cache it.
create_and_cache(r, pid, driver_id) ==
    IF r.res # "ok"
    THEN [res |-> r.res, val |-> NoArg, cache |-> r.cache, calls |-> r.calls]
    ELSE [res |-> "ok", val |-> create_device_instance(driver_id, r.device.device_id),
          cache |-> cache_set(r.cache, pid,
                              create_device_instance(driver_id, r.device.device_id)),
          calls |-> r.calls \o <<"create_device_instance">>]

\* DriverManager.device_instance_for_pairing_id after the cache lookup
\* missed; paired_device is what get_paired_device gave.
device_instance_miss(c, pid, paired_device) ==
    IF paired_device.res # "ok"
    THEN [res |-> paired_device.res, val |-> NoArg, cache |-> c, calls |-> <<>>]
    ELSE create_and_cache(
             retrieve_driver_and_device(c, paired_device.val.driver_id,
                                        paired_device.val.device_id),
             pid, paired_device.val.driver_id)

\* DriverManager.device_instance_for_pairing_id
device_instance_for_pairing_id(c, db, pid) ==
    IF pid \in DOMAIN c
    THEN [res |-> "ok", val |-> c[pid], cache |-> c, calls |-> <<>>]
    ELSE device_instance_miss(c, pid, get_paired_device(db, pid))

\* read_device_commands, get_remote_layout, execute_device_command and
\* is_device_ready once the instance is resolved (i): call its capability.
call_instance(i, capability) ==
    IF i.res # "ok"
    THEN i
    ELSE [i EXCEPT !.calls = @ \o capability]

\* read_device_commands, get_remote_layout, execute_device_command and
\* is_device_ready: resolve the instance, then call its capability.
device_call(c, db, pid, capability) ==
    call_instance(device_instance_for_pairing_id(c, db, pid), capability)

\* The outcome of a DriverManager call, as its caller sees it. again is
\* history: finalize_pairing reported a pair done that it had reported
\* before, with no unpair_device in between.
Outcome(op, driver_id, device_id, pid, res, val, calls) ==
    [op |-> op, driver_id |-> driver_id, device_id |-> device_id, pairing_id |-> pid,
     res |-> res, val |-> val, calls |-> calls, again |-> FALSE]

\* A coroutine slot in which no call has been made yet. Of a call: op and
\* pid are the method and its pairing_id, pc the place the coroutine is at
\* ("done" once it has returned or raised), res and val its outcome or the
\* instance it holds, driver_id and device_id of the paired device it
\* resolves. missed and beside are history: the call did not find its
\* pairing_id in the cache, and the pairing_id of a call that was suspended
\* in a driver call when this call was made.
NoTask ==
    [pc |-> "done", op |-> NoArg, pid |-> NoArg, res |-> NoArg, val |-> NoInstance,
     driver_id |-> NoArg, device_id |-> NoArg, missed |-> FALSE, beside |-> NoArg]

\* No paired_devices call made yet. Of a call: pc is "loading" between
\* db.keys() and the last db.load(k), keys the keys listed and not loaded
\* yet, loaded the entities loaded so far, res its outcome.
NoListing == [pc |-> "done", keys |-> {}, loaded |-> {}, res |-> NoArg]

Init ==
    /\ catalog \in Catalogs
    /\ installed = DriverIds
    /\ exposed = [d \in DriverIds |-> DevicesOf(d)]
    /\ store = [k \in {} |-> NoArg]
    /\ cache = [k \in {} |-> NoArg]
    /\ last = Outcome("init", NoArg, NoArg, NoArg, "ok", NoArg, <<>>)
    /\ envChanges = 0
    /\ pairings = {}
    /\ requests = {}
    /\ tasks = [t \in Tasks |-> NoTask]
    /\ listCall = NoListing

\* The pairing IDs a caller can ask for: those of the devices, and one that
\* belongs to nothing.
PairingIds ==
    UNION {{pairing_id(d, x).id : x \in DevicesOf(d) \ {None}} : d \in DriverIds}
        \cup {"unknown.pid"}

\* json.loads of a key string, as PairedDevice.load_all applies it.
json_loads(key_str) ==
    CHOOSE key \in {key_from_pairing_id(p) : p \in PairingIds} : json_dumps(key) = key_str

\* A load_all that filters on the name of another class.
load_all_other_kind(db) ==
    {Shelve_load(db, k).entity :
        k \in {key \in {json_loads(s) : s \in Shelve_keys(db)} :
                  key.class = "Shelve"}}

\* PairedDevice.load_all
load_all(db) ==
    {Shelve_load(db, k).entity :
        k \in {key \in {json_loads(s) : s \in Shelve_keys(db)} :
                  key.class = "PairedDevice"}}

\* History: finalize_pairing(d, x) reported the pairing done.
Reported(h, d, x) == h \cup {<<d, x>>}

\* History: unpair_device(pid) succeeded.
Unpaired(h, pid) == {q \in h : pairing_id(q[1], q[2]).id # pid}

(***************************************************************************)
(* The environment: the plugin host installs and removes drivers, and a    *)
(* driver's devices come and go.                                           *)
(***************************************************************************)

EnvInstall ==
    \E d \in DriverIds \ installed :
        /\ envChanges < MaxEnvChanges
        /\ installed' = installed \cup {d}
        /\ envChanges' = envChanges + 1
        /\ UNCHANGED <<catalog, exposed, store, cache, last, pairings, requests, tasks, listCall>>

EnvUninstall ==
    \E d \in installed :
        /\ envChanges < MaxEnvChanges
        /\ installed' = installed \ {d}
        /\ envChanges' = envChanges + 1
        /\ UNCHANGED <<catalog, exposed, store, cache, last, pairings, requests, tasks, listCall>>

EnvExpose ==
    \E d \in DriverIds : \E x \in DevicesOf(d) \ exposed[d] :
        /\ envChanges < MaxEnvChanges
        /\ exposed' = [exposed EXCEPT ![d] = @ \cup {x}]
        /\ envChanges' = envChanges + 1
        /\ UNCHANGED <<catalog, installed, store, cache, last, pairings, requests, tasks, listCall>>

EnvHide ==
    \E d \in DriverIds : \E x \in exposed[d] :
        /\ envChanges < MaxEnvChanges
        /\ exposed' = [exposed EXCEPT ![d] = @ \ {x}]
        /\ envChanges' = envChanges + 1
        /\ UNCHANGED <<catalog, installed, store, cache, last, pairings, requests, tasks, listCall>>

\* A TTLCache entry expires (ttl) or is evicted (maxsize).
CacheExpire ==
    \E k \in DOMAIN cache :
        /\ cache' = [j \in DOMAIN cache \ {k} |-> cache[j]]
        /\ UNCHANGED <<catalog, installed, exposed, store, last, envChanges, pairings, requests, tasks, listCall>>

(***************************************************************************)
(* The DriverManager calls.                                                *)
(***************************************************************************)

ReadDrivers ==
    /\ last' = Outcome("read_drivers", NoArg, NoArg, NoArg, "ok", read_drivers,
                       <<"installed_drivers">>)
    /\ UNCHANGED <<catalog, installed, exposed, store, cache, envChanges, pairings, requests, tasks, listCall>>

RetrieveDriver ==
    \E d \in DriverIds :
        LET r == retrieve_driver(d)
        IN  /\ last' = Outcome("retrieve_driver", d, NoArg, NoArg, r.res, NoArg, r.calls)
            /\ UNCHANGED <<catalog, installed, exposed, store, cache, envChanges, pairings, requests, tasks, listCall>>

ReadDevices ==
    \E d \in DriverIds :
        LET r == read_devices(cache, d)
        IN  /\ cache' = r.cache
            /\ last' = Outcome("read_devices", d, NoArg, NoArg, r.res, r.devices, r.calls)
            /\ UNCHANGED <<catalog, installed, exposed, store, envChanges, pairings, requests, tasks, listCall>>

StartPairing ==
    \E d \in DriverIds : \E x \in AskedDevices(d) :
        LET r == start_pairing(cache, d, x)
        IN  /\ cache' = r.cache
            /\ last' = Outcome("start_pairing", d, x, NoArg, r.res, r.val, r.calls)
            /\ UNCHANGED <<catalog, installed, exposed, store, envChanges, pairings, requests, tasks, listCall>>

FinalizePairing ==
    \E d \in DriverIds : \E x \in AskedDevices(d), answer \in DriverAnswers :
        LET r == finalize_pairing(cache, store, d, x, answer)
        IN  /\ cache' = r.cache
            /\ store' = r.store
            /\ last' = [Outcome("finalize_pairing", d, x, NoArg, r.res, r.val, r.calls)
                           EXCEPT !.again = (r.res = "true" /\ <<d, x>> \in pairings)]
            /\ pairings' = IF r.res = "true" THEN Reported(pairings, d, x)
                           ELSE pairings
            /\ UNCHANGED <<catalog, installed, exposed, envChanges, requests, tasks, listCall>>

PairedDevices ==
    /\ last' = Outcome("paired_devices", NoArg, NoArg, NoArg, "ok", load_all(store), <<>>)
    /\ UNCHANGED <<catalog, installed, exposed, store, cache, envChanges, pairings, requests, tasks, listCall>>

GetPairedDevice ==
    \E pid \in PairingIds :
        LET r == get_paired_device(store, pid)
        IN  /\ last' = Outcome("get_paired_device", NoArg, NoArg, pid, r.res, r.val, <<>>)
            /\ UNCHANGED <<catalog, installed, exposed, store, cache, envChanges, pairings, requests, tasks, listCall>>

UnpairDevice ==
    \E pid \in PairingIds :
        LET r == unpair_device(store, pid)
        IN  /\ store' = r.store
            /\ last' = Outcome("unpair_device", NoArg, NoArg, pid, r.res, NoArg, <<>>)
            /\ pairings' = IF r.res = "ok" THEN Unpaired(pairings, pid) ELSE pairings
            /\ UNCHANGED <<catalog, installed, exposed, cache, envChanges, requests, tasks, listCall>>

DeviceInstanceForPairingId ==
    \E pid \in PairingIds :
        LET r == device_instance_for_pairing_id(cache, store, pid)
        IN  /\ cache' = r.cache
            /\ last' = Outcome("device_instance_for_pairing_id", NoArg, NoArg, pid,
                               r.res, r.val, r.calls)
            /\ UNCHANGED <<catalog, installed, exposed, store, envChanges, pairings, requests, tasks, listCall>>

ReadDeviceCommands ==
    \E pid \in PairingIds :
        LET r == device_call(cache, store, pid, <<"get_commands">>)
        IN  /\ cache' = r.cache
            /\ last' = Outcome("read_device_commands", NoArg, NoArg, pid, r.res, r.val,
                               r.calls)
            /\ UNCHANGED <<catalog, installed, exposed, store, envChanges, pairings, requests, tasks, listCall>>

GetRemoteLayout ==
    \E pid \in PairingIds :
        LET r == device_call(cache, store, pid, <<"remote_layout_size", "remote_layout">>)
        IN  /\ cache' = r.cache
            /\ last' = Outcome("get_remote_layout", NoArg, NoArg, pid, r.res, r.val,
                               r.calls)
            /\ UNCHANGED <<catalog, installed, exposed, store, envChanges, pairings, requests, tasks, listCall>>

ExecuteDeviceCommand ==
    \E pid \in PairingIds, command_id \in CommandIds :
        LET r == device_call(cache, store, pid, <<"get_command", "execute">>)
        IN  /\ cache' = r.cache
            /\ last' = Outcome("execute_device_command", NoArg, NoArg, pid, r.res, r.val,
                               r.calls)
            /\ UNCHANGED <<catalog, installed, exposed, store, envChanges, pairings, requests, tasks, listCall>>

IsDeviceReady ==
    \E pid \in PairingIds :
        LET r == device_call(cache, store, pid, <<"is_device_ready">>)
        IN  /\ cache' = r.cache
            /\ last' = Outcome("is_device_ready", NoArg, NoArg, pid, r.res, r.val, r.calls)
            /\ UNCHANGED <<catalog, installed, exposed, store, envChanges, pairings, requests, tasks, listCall>>

Next ==
    \/ EnvInstall \/ EnvUninstall \/ EnvExpose \/ EnvHide \/ CacheExpire
    \/ ReadDrivers \/ RetrieveDriver \/ ReadDevices
    \/ StartPairing \/ FinalizePairing
    \/ PairedDevices \/ GetPairedDevice \/ UnpairDevice
    \/ DeviceInstanceForPairingId
    \/ ReadDeviceCommands \/ GetRemoteLayout \/ ExecuteDeviceCommand \/ IsDeviceReady

Spec == Init /\ [][Next]_vars

(***************************************************************************)
(* What the claims speak of.                                               *)
(***************************************************************************)

\* The shelf holds a record whose pairing ID is pid.
HasRecord(db, pid) ==
    \E k \in DOMAIN db :
        pairing_id(db[k].driver_id, db[k].device_id) = [ok |-> TRUE, id |-> pid]

\* The cache after the entry of key has expired or was evicted.
Evicted(c, key) == [k \in DOMAIN c \ {key} |-> c[k]]

\* The calls that operate a paired device.
CommandOps ==
    {"read_device_commands", "get_remote_layout", "execute_device_command",
     "is_device_ready"}

\* The device listing read_devices works with: the cached one while the
\* cache holds it, the driver's otherwise.
ListingInUse(d) ==
    IF devices_key(d) \in DOMAIN cache THEN cache[devices_key(d)] ELSE get_devices(d)

\* A step that is a call of finalize_pairing; its outcome is in last'.
FinalizeStep == last'.op = "finalize_pairing" /\ FinalizePairing

(***************************************************************************)
(* C1. Read-after-write of a pairing: once finalize_pairing(drv, dev)      *)
(* returned true, and until the pairing ID "{drv}.{dev}" is unpaired,      *)
(* get_paired_device of that pairing ID and the list of paired devices     *)
(* give a record whose driver_id is drv and whose device_id is dev.        *)
(***************************************************************************)
C1_ReadAfterWrite ==
    \A p \in pairings :
        LET got == get_paired_device(store, pairing_id(p[1], p[2]).id)
        IN  /\ got.res = "ok"
            /\ got.val.driver_id = p[1]
            /\ got.val.device_id = p[2]
            /\ \E rec \in load_all(store) :
                   rec.driver_id = p[1] /\ rec.device_id = p[2]

(***************************************************************************)
(* C2. After unpair_device(pid) succeeded the cache holds no entry keyed   *)
(* by pid, and resolving the instance of pid fails with DeviceNotFound.    *)
(***************************************************************************)
C2_UnpairEvictsInstance ==
    (last.op = "unpair_device" /\ last.res = "ok") =>
        /\ last.pairing_id \notin DOMAIN cache
        /\ device_instance_for_pairing_id(cache, store, last.pairing_id).res
               = "DeviceNotFound"

(***************************************************************************)
(* C3. Cache transparency: for every pairing ID, resolving the device      *)
(* instance gives the same result kind and an equal instance whether the   *)
(* cache holds the entry of that pairing ID or the entry is gone.          *)
(***************************************************************************)
C3_CacheTransparent ==
    \A pid \in PairingIds :
        LET hit == device_instance_for_pairing_id(cache, store, pid)
            miss == device_instance_for_pairing_id(Evicted(cache, pid), store, pid)
        IN  /\ hit.res = miss.res
            /\ hit.val = miss.val

(***************************************************************************)
(* C4. A command call (commands, layout, execute, readiness) for a pairing *)
(* ID that has no record in the store fails with DeviceNotFound, and no    *)
(* driver capability was called on the way.                                *)
(***************************************************************************)
C4_UnknownPairingFailsFirst ==
    (last.op \in CommandOps /\ ~HasRecord(store, last.pairing_id)) =>
        /\ last.res = "DeviceNotFound"
        /\ last.calls = <<>>

(***************************************************************************)
(* C5. finalize_pairing is all-or-nothing on the store: a call that        *)
(* returns false or raises (DriverNotFound, DeviceNotFound, or the         *)
(* PairingException that wraps a driver error or an invalid key) leaves    *)
(* the store exactly as it was.                                            *)
(***************************************************************************)
C5_FinalizeAllOrNothing ==
    [][ (FinalizeStep /\ last'.res # "true") =>
            /\ store' = store
            /\ last'.res \in {"false", "DriverNotFound", "DeviceNotFound",
                              "PairingException"}
            /\ (last'.device_id = None /\ "finalize_pairing" \in Range(last'.calls)
                   => last'.res \in {"false", "PairingException"}) ]_vars

C5_Witness ==
    /\ last.op = "finalize_pairing"
    /\ last.res = "PairingException"
    /\ last.device_id = None
    /\ DOMAIN store # {}

(***************************************************************************)
(* C6 as claimed: finalize_pairing checks driver and device against their  *)
(* current state: when the driver is not installed or does not expose the  *)
(* device at the time of the call, it fails with DriverNotFound or         *)
(* DeviceNotFound and writes nothing.                                      *)
(***************************************************************************)
C6_RevalidatesCurrentState ==
    [][ (FinalizeStep /\ (\/ last'.driver_id \notin installed
                          \/ last'.device_id \notin exposed[last'.driver_id])) =>
            /\ last'.res \in {"DriverNotFound", "DeviceNotFound"}
            /\ store' = store ]_vars

(***************************************************************************)
(* C6 as amended: finalize_pairing resolves driver and device again: it    *)
(* fails with DriverNotFound and writes nothing when the driver is not     *)
(* installed now, and it fails with DeviceNotFound and writes nothing when *)
(* the device is not in the listing in use, which is the cached listing    *)
(* while the cache holds one and the driver's current listing otherwise.   *)
(***************************************************************************)
C6_RevalidatesThroughCache ==
    [][ FinalizeStep =>
            /\ (last'.driver_id \notin installed =>
                    last'.res = "DriverNotFound" /\ store' = store)
            /\ ((/\ last'.driver_id \in installed
                 /\ ~\E info \in ListingInUse(last'.driver_id) :
                        info.device_id = last'.device_id) =>
                    last'.res = "DeviceNotFound" /\ store' = store) ]_vars

C6_Witness ==
    /\ last.op = "finalize_pairing"
    /\ last.res = "DriverNotFound"
    /\ devices_key(last.driver_id) \in DOMAIN cache
    /\ \E info \in cache[devices_key(last.driver_id)] :
           info.device_id = last.device_id
    /\ last.device_id \in exposed[last.driver_id]

(***************************************************************************)
(* C7. unpair_device(pid) of a pairing ID with a record deletes that       *)
(* record and no other, after which get_paired_device(pid) fails with      *)
(* DeviceNotFound and the list of paired devices has no record of pid;     *)
(* unpair_device(pid) of a pairing ID without a record fails with          *)
(* DeviceNotFound and leaves the store as it was.                          *)
(***************************************************************************)
C7_UnpairDeletesExactlyOne ==
    [][ UnpairDevice =>
            IF HasRecord(store, last'.pairing_id)
            THEN /\ last'.res = "ok"
                 /\ \E k \in DOMAIN store :
                        /\ pairing_id(store[k].driver_id, store[k].device_id).id
                               = last'.pairing_id
                        /\ DOMAIN store' = DOMAIN store \ {k}
                 /\ \A j \in DOMAIN store' : store'[j] = store[j]
                 /\ get_paired_device(store', last'.pairing_id).res = "DeviceNotFound"
                 /\ ~HasRecord(store', last'.pairing_id)
                 /\ \A rec \in load_all(store') :
                        pairing_id(rec.driver_id, rec.device_id).id # last'.pairing_id
            ELSE /\ last'.res = "DeviceNotFound"
                 /\ store' = store ]_vars

C7_Witness ==
    /\ last.op = "unpair_device"
    /\ last.res = "ok"
    /\ DOMAIN store # {}
    /\ ~HasRecord(store, last.pairing_id)

(***************************************************************************)
(* C8. Pairing idempotence: a second successful finalize_pairing of the    *)
(* same driver and device lands on the same pairing ID and overwrites, so  *)
(* the store holds one record per pairing ID and never more records than   *)
(* pairing IDs that were finalized and not unpaired since.                 *)
(***************************************************************************)
C8_PairingIdempotent ==
    /\ \A k1, k2 \in DOMAIN store :
           pairing_id(store[k1].driver_id, store[k1].device_id)
               = pairing_id(store[k2].driver_id, store[k2].device_id) => k1 = k2
    /\ Cardinality(DOMAIN store)
           <= Cardinality({pairing_id(p[1], p[2]).id : p \in pairings})
    /\ (last.op = "finalize_pairing" /\ last.again) =>
           Cardinality({k \in DOMAIN store :
                           /\ store[k].driver_id = last.driver_id
                           /\ store[k].device_id = last.device_id}) = 1

C8_Witness ==
    /\ last.op = "finalize_pairing"
    /\ last.again
    /\ Cardinality(DOMAIN store) = 2

(***************************************************************************)
(* C9. The store changes only through the pairing lifecycle: a step that   *)
(* changes it is a finalize_pairing that returned true or an unpair_device *)
(* that succeeded; every other call leaves it as it was, and what is       *)
(* stored is paired devices only, never a pairing that has merely started. *)
(***************************************************************************)
C9_StoreChangesOnlyByLifecycle ==
    [][ /\ (store' # store =>
               \/ last'.op = "finalize_pairing" /\ last'.res = "true"
               \/ last'.op = "unpair_device" /\ last'.res = "ok")
        /\ (\A k \in DOMAIN store' \ DOMAIN store :
               /\ last'.op = "finalize_pairing"
               /\ store'[k] = PairedDevice(last'.driver_id, last'.device_id,
                                           DeviceInfo(last'.device_id).name)) ]_vars

C9_Witness ==
    /\ last.op = "start_pairing"
    /\ last.res = "ok"
    /\ DOMAIN store = {}
    /\ pairings = {}

C11_ListIsLiveRecords ==
    /\ {pairing_id(rec.driver_id, rec.device_id).id : rec \in load_all(store)}
           = {pairing_id(p[1], p[2]).id : p \in pairings}
    /\ Cardinality(load_all(store))
           = Cardinality({pairing_id(p[1], p[2]).id : p \in pairings})
    /\ \A rec \in load_all(store) : <<rec.driver_id, rec.device_id>> \in pairings
    /\ (DOMAIN store = {} => load_all(store) = {})
    /\ (last.op = "paired_devices" =>
           last.res = "ok" /\ last.val = load_all(store))

C11_Witness ==
    /\ last.op = "paired_devices"
    /\ Cardinality(last.val) = 1
    /\ Cardinality(pairings) = 1
    /\ \E k \in DOMAIN cache : k \in PairingIds /\ ~HasRecord(store, k)

\* A step that is a call of read_devices; its outcome is in last'.
ReadDevicesStep == last'.op = "read_devices" /\ ReadDevices

(***************************************************************************)
(* C12 as claimed: read_devices(driver_id) fails with DriverNotFound       *)
(* whenever no driver with that identifier is installed at the time of the *)
(* call, also when a listing of that driver was obtained earlier.          *)
(***************************************************************************)
C12_ListDevicesNeedsDriver ==
    [][ (ReadDevicesStep /\ last'.driver_id \notin installed) =>
            last'.res = "DriverNotFound" ]_vars

(***************************************************************************)
(* C12 as amended: read_devices(driver_id) fails with DriverNotFound, and  *)
(* caches nothing, when no driver with that identifier is installed at the *)
(* time of the call and the cache holds no listing of that driver; while   *)
(* the cache holds a listing, read_devices returns that listing whether or *)
(* not the driver is still installed; otherwise it returns the driver's    *)
(* current listing and caches it.                                          *)
(***************************************************************************)
C12_ListDevicesThroughCache ==
    [][ ReadDevicesStep =>
            IF devices_key(last'.driver_id) \in DOMAIN cache
            THEN /\ last'.res = "ok"
                 /\ last'.val = cache[devices_key(last'.driver_id)]
                 /\ cache' = cache
            ELSE IF last'.driver_id \notin installed
            THEN /\ last'.res = "DriverNotFound"
                 /\ cache' = cache
            ELSE /\ last'.res = "ok"
                 /\ last'.val = get_devices(last'.driver_id)
                 /\ cache' = cache_set(cache, devices_key(last'.driver_id),
                                       get_devices(last'.driver_id)) ]_vars

C12_Witness ==
    /\ last.op = "read_devices"
    /\ last.res = "DriverNotFound"
    /\ last.driver_id \notin installed
    /\ \E k \in DOMAIN store : store[k].driver_id = last.driver_id

(***************************************************************************)
(* C13. retrieve_driver(d) succeeds exactly when d is the identifier of a  *)
(* driver that read_drivers returns now, and fails with DriverNotFound     *)
(* otherwise; read_drivers returns the drivers installed now. Neither call *)
(* keeps or uses state of its own, so the call right after an install or   *)
(* an uninstall already reflects it.                                       *)
(***************************************************************************)
C13_RegistryIsCurrent ==
    [][ /\ ((last'.op = "retrieve_driver" /\ RetrieveDriver) =>
               /\ (last'.res = "ok" <=> last'.driver_id \in installed)
               /\ (last'.res # "ok" => last'.res = "DriverNotFound")
               /\ cache' = cache /\ store' = store)
        /\ ((last'.op = "read_drivers" /\ ReadDrivers) =>
               /\ last'.res = "ok"
               /\ last'.val = installed
               /\ cache' = cache /\ store' = store) ]_vars

C13_Witness ==
    /\ last.op = "retrieve_driver"
    /\ last.res = "DriverNotFound"
    /\ last.driver_id \notin installed
    /\ devices_key(last.driver_id) \in DOMAIN cache
    /\ installed # {}

(***************************************************************************)
(* C16. For a pairing ID that has a record in the store, a command call    *)
(* (commands, layout, execute, readiness) that fails because the device    *)
(* instance cannot be resolved fails with DeviceNotFound and with no other *)
(* kind of error.                                                          *)
(***************************************************************************)
C16_ResolveFailureIsDeviceNotFound ==
    (/\ last.op \in CommandOps
     /\ HasRecord(store, last.pairing_id)
     /\ last.res # "ok") => last.res = "DeviceNotFound"

\* A step that is a call of start_pairing; its outcome is in last'.
StartPairingStep == last'.op = "start_pairing" /\ StartPairing

(***************************************************************************)
(* C17 as claimed: start_pairing resolves driver and device against what   *)
(* is there now: DriverNotFound when the driver is not installed,          *)
(* DeviceNotFound exactly when the driver is installed and does not expose *)
(* the device, and otherwise the driver is asked to start the pairing of   *)
(* the device with that device_id.                                         *)
(***************************************************************************)
C17_ResolveAgainstCurrentState ==
    [][ StartPairingStep =>
            IF last'.driver_id \notin installed
            THEN last'.res = "DriverNotFound"
            ELSE IF last'.device_id \notin exposed[last'.driver_id]
            THEN last'.res = "DeviceNotFound"
            ELSE last'.res = "ok" ]_vars

(***************************************************************************)
(* C17 as amended: start_pairing fails with DriverNotFound when the driver *)
(* is not installed now, whatever the device; with DeviceNotFound exactly  *)
(* when the driver is installed and the listing in use (the cached listing *)
(* while the cache holds one, the driver's current listing otherwise) has  *)
(* no device with that device_id; otherwise the device with that device_id *)
(* is resolved and the driver starts its pairing. The driver's             *)
(* start_pairing is called only after the resolution succeeded.            *)
(***************************************************************************)
C17_ResolveThroughCache ==
    [][ StartPairingStep =>
            /\ IF last'.driver_id \notin installed
               THEN last'.res = "DriverNotFound"
               ELSE IF ~\E info \in ListingInUse(last'.driver_id) :
                           info.device_id = last'.device_id
               THEN last'.res = "DeviceNotFound"
               ELSE /\ last'.res = "ok"
                    /\ last'.val = driver_start_pairing(last'.driver_id,
                                                        DeviceInfo(last'.device_id))
            /\ ("start_pairing" \in Range(last'.calls) <=> last'.res = "ok")
            /\ (last'.res = "ok" =>
                   last'.calls[Len(last'.calls)] = "start_pairing")
            /\ store' = store ]_vars

C17_Witness ==
    /\ last.op = "start_pairing"
    /\ last.res = "DriverNotFound"
    /\ last.device_id \in exposed[last.driver_id]
    /\ devices_key(last.driver_id) \in DOMAIN cache

(***************************************************************************)
(* SpecSessions: pairing with the sessions the drivers keep. A driver      *)
(* opens a session in start_pairing and hands out its request identifier;  *)
(* finalize_pairing passes a request identifier, and nothing else about    *)
(* the device, to driver.finalize_pairing, which completes the session of  *)
(* that identifier.                                                        *)
(***************************************************************************)

\* The session driver d opens for device x in driver.start_pairing.
Session(d, x) ==
    [id |-> driver_start_pairing(d, DeviceInfo(x))[1], driver_id |-> d, device_id |-> x]

\* A pairing_request_id that no driver handed out.
NoSession == [id |-> NoArg, driver_id |-> NoArg, device_id |-> NoArg]

\* What driver.finalize_pairing can do with a request: any of its answers
\* for a session it holds, no success for an identifier it does not know.
SessionAnswers(req) ==
    IF req = NoSession THEN DriverAnswers \ {"true"} ELSE DriverAnswers

\* The sessions after driver.finalize_pairing answered: a completed session
\* is closed.
sessions_after(open, req, answer, r) ==
    IF answer = "true" /\ "finalize_pairing" \in Range(r.calls)
    THEN open \ {req}
    ELSE open

\* DriverManager.start_pairing, with the driver's session.
SessionStart ==
    \E d \in DriverIds : \E x \in AskedDevices(d) :
        LET r == start_pairing(cache, d, x)
        IN  /\ cache' = r.cache
            /\ last' = Outcome("start_pairing", d, x, NoArg, r.res, r.val, r.calls)
            /\ requests' = IF r.res = "ok" THEN requests \cup {Session(d, x)}
                           ELSE requests
            /\ UNCHANGED <<catalog, installed, exposed, store, envChanges, pairings,
                           tasks, listCall>>

\* DriverManager.finalize_pairing with the request identifier of req, a
\* session of driver d or none.
SessionFinalize ==
    \E d \in DriverIds :
        \E x \in AskedDevices(d), req \in {s \in requests : s.driver_id = d} \cup {NoSession} :
            \E answer \in SessionAnswers(req) :
                LET r == finalize_pairing(cache, store, d, x, answer)
                IN  /\ cache' = r.cache
                    /\ store' = r.store
                    /\ last' = [Outcome("finalize_pairing", d, x, NoArg, r.res, r.val,
                                        r.calls)
                                   EXCEPT !.again = (r.res = "true" /\ <<d, x>> \in pairings)]
                    /\ pairings' = IF r.res = "true" THEN Reported(pairings, d, x)
                                   ELSE pairings
                    /\ requests' = sessions_after(requests, req, answer, r)
                    /\ UNCHANGED <<catalog, installed, exposed, envChanges, tasks, listCall>>

NextSessions ==
    \/ SessionStart \/ SessionFinalize
    \/ PairedDevices \/ GetPairedDevice \/ UnpairDevice
    \/ CacheExpire

SpecSessions == Init /\ [][NextSessions]_vars

(***************************************************************************)
(* C19. A record of (driver_id, device_id) is written only when the        *)
(* request the driver completed was issued by start_pairing for that       *)
(* driver_id and device_id: the session that a finalize_pairing returning  *)
(* true has closed is the session of the pair it writes.                   *)
(***************************************************************************)
C19_RecordMatchesRequest ==
    [][ (last'.op = "finalize_pairing" /\ SessionFinalize /\ last'.res = "true") =>
            \A s \in requests \ requests' :
                s.driver_id = last'.driver_id /\ s.device_id = last'.device_id ]_vars

(***************************************************************************)
(* C20. Pairing IDs identify pairings uniquely, so that pairing one device *)
(* never overwrites the record of a different (driver_id, device_id) pair: *)
(* a record that a step leaves under its key is still the record of the    *)
(* same driver_id and device_id.                                           *)
(***************************************************************************)
C20_PairingIdsUnique ==
    [][ \A k \in DOMAIN store \cap DOMAIN store' :
            /\ store'[k].driver_id = store[k].driver_id
            /\ store'[k].device_id = store[k].device_id ]_vars

(***************************************************************************)
(* SpecTasks: device_instance_for_pairing_id and read_device_commands as   *)
(* coroutines. A call runs without a break up to the driver call it awaits *)
(* (get_devices, create_device_instance, get_commands), is suspended there *)
(* while other coroutines run, and goes on when the driver call returns.   *)
(* The TTLCache compares an entry's expiry with the clock in `in` and      *)
(* again in `[]`, so an entry can expire between the two. The shelve file  *)
(* outlives the process: the manager starts with the records of earlier    *)
(* runs and an empty cache.                                                *)
(***************************************************************************)

\* The methods followed as coroutines.
TaskOps == {"device_instance_for_pairing_id", "read_device_commands"}

\* The places where a coroutine is suspended in a driver call.
Suspended == {"enumerating", "instantiating", "commanding"}

\* What a KeyError out of the cache becomes for the caller: the command
\* methods turn it into DeviceNotFoundException, device_instance_for_pairing_id
\* lets it pass.
key_error(op) ==
    IF op = "device_instance_for_pairing_id" THEN "KeyError" ELSE "DeviceNotFound"

\* A manager that holds one lock across its driver calls: the coroutine t
\* goes on only when no other coroutine is suspended.
ready_alone(ts, t, pc) ==
    /\ ts[t].pc = pc
    /\ \A u \in Tasks \ {t} : ts[u].pc \notin Suspended

\* The event loop resumes the coroutine t at place pc when the driver call
\* it awaits there has returned, whatever other coroutines wait for.
ready(ts, t, pc) == ts[t].pc = pc

\* The coroutine returned or raised.
Done(tk, res, val) == [tk EXCEPT !.pc = "done", !.res = res, !.val = val]

\* The coroutine holds the device instance: device_instance_for_pairing_id
\* returns it, read_device_commands awaits device_instance.get_commands().
got_instance(tk, instance) ==
    IF tk.op = "device_instance_for_pairing_id"
    THEN Done(tk, "ok", instance)
    ELSE [tk EXCEPT !.pc = "commanding", !.val = instance]

\* device_instance_for_pairing_id, pairing_id found in the cache by `in`:
\* self._cache[pairing_id], of an entry that has expired since or not.
task_hit(tk, c, expires) ==
    IF expires
    THEN [task |-> Done(tk, key_error(tk.op), NoInstance), cache |-> Evicted(c, tk.pid)]
    ELSE [task |-> got_instance(tk, c[tk.pid]), cache |-> c]

\* retrieve_driver_and_device with the listing in hand: the filter on
\* device_id, then await driver.create_device_instance.
task_filter(tk, c, listing) ==
    IF \E info \in listing : info.device_id = tk.device_id
    THEN [task |-> [tk EXCEPT !.pc = "instantiating"], cache |-> c]
    ELSE [task |-> Done(tk, "DeviceNotFound", NoInstance), cache |-> c]

\* read_devices for the paired device's driver: the cached listing (of an
\* entry that has expired since `in` or not), or await get_devices().
task_listing(tk, c, expires) ==
    IF devices_key(tk.driver_id) \in DOMAIN c
    THEN IF expires
         THEN [task |-> Done(tk, key_error(tk.op), NoInstance),
               cache |-> Evicted(c, devices_key(tk.driver_id))]
         ELSE task_filter(tk, c, c[devices_key(tk.driver_id)])
    ELSE [task |-> [tk EXCEPT !.pc = "enumerating"], cache |-> c]

\* device_instance_for_pairing_id after the cache lookup missed:
\* get_paired_device, retrieve_driver, read_devices.
task_miss(tk, c, paired_device, expires) ==
    IF paired_device.res # "ok"
    THEN [task |-> Done(tk, paired_device.res, NoInstance), cache |-> c]
    ELSE IF retrieve_driver(paired_device.val.driver_id).res # "ok"
    THEN [task |-> Done(tk, "DriverNotFound", NoInstance), cache |-> c]
    ELSE task_listing([tk EXCEPT !.driver_id = paired_device.val.driver_id,
                                 !.device_id = paired_device.val.device_id,
                                 !.missed = TRUE], c, expires)

\* A call up to its first suspension or its end.
task_call(tk, c, db, expires) ==
    IF tk.pid \in DOMAIN c
    THEN task_hit(tk, c, expires)
    ELSE task_miss([tk EXCEPT !.missed = TRUE], c, get_paired_device(db, tk.pid), expires)

\* History: the pairing_id of a call suspended in a driver call, if any,
\* other than t.
Beside(t) ==
    IF \E u \in Tasks \ {t} : tasks[u].pc \in Suspended
    THEN tasks[CHOOSE u \in Tasks \ {t} : tasks[u].pc \in Suspended].pid
    ELSE NoArg

\* The (driver_id, device_id) pairs that can have been paired.
Pairs == UNION {{<<d, x>> : x \in DevicesOf(d) \ {None}} : d \in DriverIds}

\* The sets of pairs whose records a shelve file can hold together.
PersistedPairs ==
    {S \in SUBSET Pairs :
        \A p, q \in S : pairing_id(p[1], p[2]) = pairing_id(q[1], q[2]) => p = q}

\* The shelve file with the records of the pairs in S.
StoreOf(S) ==
    [k \in {json_dumps(key_from_pairing_id(pairing_id(p[1], p[2]).id)) : p \in S} |->
        LET p == CHOOSE q \in S :
                     json_dumps(key_from_pairing_id(pairing_id(q[1], q[2]).id)) = k
        IN  PairedDevice(p[1], p[2], DeviceInfo(p[2]).name)]

InitTasks ==
    /\ catalog \in Catalogs
    /\ installed = DriverIds
    /\ exposed = [d \in DriverIds |-> DevicesOf(d)]
    /\ pairings \in PersistedPairs
    /\ store = StoreOf(pairings)
    /\ cache = [k \in {} |-> NoArg]
    /\ last = Outcome("init", NoArg, NoArg, NoArg, "ok", NoArg, <<>>)
    /\ envChanges = 0
    /\ requests = {}
    /\ tasks = [t \in Tasks |-> NoTask]
    /\ listCall = NoListing

\* A call of one of the methods is made in slot t and runs up to its first
\* suspension or its end.
Call(t) ==
    \E op \in TaskOps, pid \in PairingIds, expires \in BOOLEAN :
        /\ tasks[t].pc = "done"
        /\ LET r == task_call([NoTask EXCEPT !.pc = "lookup", !.op = op, !.pid = pid,
                                             !.beside = Beside(t)],
                              cache, store, expires)
           IN  /\ tasks' = [tasks EXCEPT ![t] = r.task]
               /\ cache' = r.cache
        /\ UNCHANGED <<catalog, installed, exposed, store, last, envChanges, pairings,
                       requests, listCall>>

\* get_devices() returns to t: read_devices caches the listing, then the
\* filter and the call of create_device_instance.
Enumerated(t) ==
    /\ ready(tasks, t, "enumerating")
    /\ LET r == task_filter(tasks[t],
                            cache_set(cache, devices_key(tasks[t].driver_id),
                                      get_devices(tasks[t].driver_id)),
                            get_devices(tasks[t].driver_id))
       IN  /\ tasks' = [tasks EXCEPT ![t] = r.task]
           /\ cache' = r.cache
    /\ UNCHANGED <<catalog, installed, exposed, store, last, envChanges, pairings,
                   requests, listCall>>

\* create_device_instance() returns to t: the instance is cached under the
\* pairing_id and returned.
Instantiated(t) ==
    /\ ready(tasks, t, "instantiating")
    /\ cache' = cache_set(cache, tasks[t].pid,
                          create_device_instance(tasks[t].driver_id, tasks[t].device_id))
    /\ tasks' = [tasks EXCEPT ![t] =
                    got_instance(@, create_device_instance(tasks[t].driver_id,
                                                           tasks[t].device_id))]
    /\ UNCHANGED <<catalog, installed, exposed, store, last, envChanges, pairings,
                   requests, listCall>>

\* get_commands() returns to t: read_device_commands returns.
Commanded(t) ==
    /\ ready(tasks, t, "commanding")
    /\ tasks' = [tasks EXCEPT ![t] = Done(@, "ok", @.val)]
    /\ UNCHANGED <<catalog, installed, exposed, store, cache, last, envChanges,
                   pairings, requests, listCall>>

\* A driver call returns to t and t goes on.
Resume(t) == Enumerated(t) \/ Instantiated(t) \/ Commanded(t)

TaskCall == \E t \in Tasks : Call(t)

TaskEnumerated == \E t \in Tasks : Enumerated(t)

TaskInstantiated == \E t \in Tasks : Instantiated(t)

TaskCommanded == \E t \in Tasks : Commanded(t)

NextTasks ==
    \/ TaskCall \/ TaskEnumerated \/ TaskInstantiated \/ TaskCommanded
    \/ CacheExpire

\* The driver calls of coroutine 1 return and the event loop resumes it;
\* the driver calls of the other coroutines may never return.
SpecTasks == InitTasks /\ [][NextTasks]_vars /\ WF_vars(Resume(1))

\* C15: a command operation for a pairing ID that has a store record never
\* fails because of the cache: with the driver installed and the device
\* listed, a read_device_commands call that has returned has succeeded, also
\* when a cache entry it uses expires between the membership test and the
\* read of the entry.
C15_ExpiryNeverAnError ==
    \A t \in Tasks :
        (/\ tasks[t].pc = "done"
         /\ tasks[t].op \in CommandOps
         /\ HasRecord(store, tasks[t].pid)) => tasks[t].res = "ok"

\* C14: independent progress. Coroutine 1, whose own driver calls return,
\* always comes to its end from every driver call it is suspended in, also
\* while the driver call of another coroutine, for another pairing ID or the
\* same, is suspended and never returns.
C14_IndependentProgress ==
    \A pc \in Suspended : (tasks[1].pc = pc) ~> (tasks[1].pc = "done")

\* Coroutine 1 was called for one pairing ID while coroutine 2 was suspended
\* in a driver call for another one, missed the cache, and has returned its
\* result with coroutine 2 still suspended.
C14_Witness ==
    /\ tasks[1].pc = "done"
    /\ tasks[1].res = "ok"
    /\ tasks[1].missed
    /\ tasks[1].beside # NoArg
    /\ tasks[1].beside # tasks[1].pid
    /\ tasks[2].pc \in Suspended
    /\ tasks[2].pid = tasks[1].beside

\* C18: when two device_instance_for_pairing_id calls for the same paired
\* pairing ID run at the same time and both miss the cache, each of them
\* succeeds: the call t that comes to its end while the call u is still
\* suspended after its own miss returns an instance, and the cache then
\* holds that instance under the pairing ID.
C18_ConcurrentMissesBothSucceed ==
    [][ \A t, u \in Tasks :
            (/\ t # u
             /\ tasks'[t] # tasks[t]
             /\ tasks'[t].pc = "done"
             /\ tasks'[t].op = "device_instance_for_pairing_id"
             /\ tasks'[t].missed
             /\ HasRecord(store, tasks'[t].pid)
             /\ tasks[u].pc \in {"enumerating", "instantiating"}
             /\ tasks[u].op = "device_instance_for_pairing_id"
             /\ tasks[u].pid = tasks'[t].pid)
            => /\ tasks'[t].res = "ok"
               /\ tasks'[t].pid \in DOMAIN cache'
               /\ cache'[tasks'[t].pid] = tasks'[t].val ]_vars

(***************************************************************************)
(* SpecKeys: the manager with drivers whose identifiers are free strings.  *)
(* Driver "devices(a" has the device "b)", whose pairing ID is the cache   *)
(* key of the device listing of driver "a.b". The shelve file holds the    *)
(* records of earlier runs.                                                *)
(***************************************************************************)

\* Two drivers; the pairing ID of the one's device reads as the listing key
\* of the other.
KeyCatalog == "a.b" :> {} @@ "devices(a" :> {"b)"}

InitKeys ==
    /\ catalog = KeyCatalog
    /\ installed = DriverIds
    /\ exposed = [d \in DriverIds |-> DevicesOf(d)]
    /\ pairings \in PersistedPairs
    /\ store = StoreOf(pairings)
    /\ cache = [k \in {} |-> NoArg]
    /\ last = Outcome("init", NoArg, NoArg, NoArg, "ok", NoArg, <<>>)
    /\ envChanges = 0
    /\ requests = {}
    /\ tasks = [t \in Tasks |-> NoTask]
    /\ listCall = NoListing

\* The calls that read and write the cache by a key made of their argument
\* alone, and the calls on the shelf.
NextKeys ==
    \/ ReadDevices \/ DeviceInstanceForPairingId
    \/ PairedDevices \/ GetPairedDevice \/ UnpairDevice
    \/ CacheExpire

SpecKeys == InitKeys /\ [][NextKeys]_vars

\* C21: the key spaces of the cache never collide, whatever the driver and
\* device identifiers: a device_instance_for_pairing_id call never answers
\* from the cache entry that the read_devices call before it wrote for a
\* device listing, and a read_devices call never answers from the entry
\* that the device_instance_for_pairing_id call before it wrote for a
\* device instance.
C21_KeySpacesDisjoint ==
    [][ /\ (/\ last.op = "read_devices"
             /\ "get_devices" \in Range(last.calls)
             /\ last'.op = "device_instance_for_pairing_id"
             /\ last'.res = "ok"
             /\ last'.calls = <<>>)
            => last'.pairing_id # devices_key(last.driver_id)
        /\ (/\ last.op = "device_instance_for_pairing_id"
             /\ "create_device_instance" \in Range(last.calls)
             /\ last'.op = "read_devices"
             /\ last'.res = "ok"
             /\ last'.calls = <<>>)
            => devices_key(last'.driver_id) # last.pairing_id ]_vars

\* C22: after unpair_device(pid) and a new successful finalize_pairing of
\* the same device (one that finalize_pairing had not reported paired since
\* the unpairing), the device_instance_for_pairing_id(pid) call that follows
\* returns an instance that the driver creates in that call, never an
\* instance of that device from before.
C22_FreshInstanceAfterRepair ==
    [][ (/\ last.op = "finalize_pairing"
         /\ last.res = "true"
         /\ ~last.again
         /\ last'.op = "device_instance_for_pairing_id"
         /\ last'.res = "ok"
         /\ last'.pairing_id = pairing_id(last.driver_id, last.device_id).id
         /\ last'.val = create_device_instance(last.driver_id, last.device_id))
        => "create_device_instance" \in Range(last'.calls) ]_vars

(***************************************************************************)
(* SpecStore: paired_devices with the shelf as a resource shared with      *)
(* other callers. PairedDevice.load_all is a db.keys() followed by one     *)
(* db.load(k) for each key listed; each opens the shelf anew, and          *)
(* unpair_device and finalize_pairing calls of other callers delete and    *)
(* save between them.                                                      *)
(***************************************************************************)

\* PairedDevice.load_all up to its first load: db.keys(), json.loads and
\* the filter on the class.
load_all_keys(db) ==
    {key \in {json_loads(s) : s \in Shelve_keys(db)} : key.class = "PairedDevice"}

\* PairedDevice.load_all with the keys listed: on to the loads, or the
\* empty list.
load_all_listed(keys) ==
    IF keys = {}
    THEN [pc |-> "done", keys |-> {}, loaded |-> {}, res |-> "ok"]
    ELSE [pc |-> "loading", keys |-> keys, loaded |-> {}, res |-> NoArg]

\* PairedDevice.load_all, db.load(k) of one key listed (l is what
\* Shelve.load did): the entity joins the list, or the KeyError ends the
\* call.
load_all_loaded(ls, k, l) ==
    IF l.ok
    THEN [pc |-> IF ls.keys = {k} THEN "done" ELSE "loading",
          keys |-> ls.keys \ {k},
          loaded |-> ls.loaded \cup {l.entity},
          res |-> IF ls.keys = {k} THEN "ok" ELSE NoArg]
    ELSE [pc |-> "done", keys |-> {}, loaded |-> {}, res |-> "KeyError"]

\* paired_devices is called: the keys are listed.
ListKeys ==
    /\ listCall.pc = "done"
    /\ listCall' = load_all_listed(load_all_keys(store))
    /\ UNCHANGED <<catalog, installed, exposed, store, cache, last, envChanges,
                   pairings, requests, tasks>>

\* paired_devices loads one of the keys it listed.
ListLoad ==
    /\ listCall.pc = "loading"
    /\ \E k \in listCall.keys :
           listCall' = load_all_loaded(listCall, k, Shelve_load(store, k))
    /\ UNCHANGED <<catalog, installed, exposed, store, cache, last, envChanges,
                   pairings, requests, tasks>>

NextStore ==
    \/ ListKeys \/ ListLoad
    \/ FinalizePairing \/ UnpairDevice

SpecStore == Init /\ [][NextStore]_vars

\* C23: paired_devices never fails when unpair_device and finalize_pairing
\* run between its store operations: it never raises because a key that it
\* listed was deleted before it loaded it.
C23_ListNeverFails == listCall.res # "KeyError"
====
